---- MODULE Spec2Model ----
(***************************************************************************)
(* A model of EzGroupbyTreeMixin (src/src/components/ez-groupby-tree-      *)
(* mixin.js): groupBy, IN, applyModifier, parseAggStr, parseGroupByField,  *)
(* aggFunction, the Quartile helpers and pathAggFunction.                  *)
(*                                                                         *)
(* JavaScript values are tagged records (number, string, undefined, NaN),  *)
(* strings are sequences of one-character strings, so that parsing,        *)
(* formatting, loose and strict equality and the default sort order are    *)
(* computed, not assumed.                                                  *)
(***************************************************************************)
EXTENDS Integers, Sequences, FiniteSets, TLC

(***************************************************************************)
(* JavaScript values.  A number is k * (2^53 - 1) + n, which keeps the     *)
(* safe-integer sentinels exact without 64-bit arithmetic.                 *)
(***************************************************************************)
Num(i) == [t |-> "num", k |-> 0, n |-> i, s |-> <<>>]
Str(cs) == [t |-> "str", k |-> 0, n |-> 0, s |-> cs]
Undef == [t |-> "undef", k |-> 0, n |-> 0, s |-> <<>>]
NaN == [t |-> "nan", k |-> 0, n |-> 0, s |-> <<>>]
MAX_SAFE_INTEGER == [t |-> "num", k |-> 1, n |-> 0, s |-> <<>>]
MIN_SAFE_INTEGER == [t |-> "num", k |-> -1, n |-> 0, s |-> <<>>]

\* UTF-16 code units of the characters the model's strings are made of.
CharCode(c) ==
  CASE c = " " -> 32 [] c = "(" -> 40 [] c = ")" -> 41 [] c = "," -> 44
    [] c = "-" -> 45 [] c = "." -> 46
    [] c = "0" -> 48 [] c = "1" -> 49 [] c = "2" -> 50 [] c = "3" -> 51
    [] c = "4" -> 52 [] c = "5" -> 53 [] c = "6" -> 54 [] c = "7" -> 55
    [] c = "8" -> 56 [] c = "9" -> 57 [] c = ":" -> 58 [] c = ">" -> 62
    [] c = "N" -> 78 [] c = "T" -> 84 [] c = "Z" -> 90 [] c = "_" -> 95
    [] c = "a" -> 97 [] c = "b" -> 98 [] c = "c" -> 99 [] c = "d" -> 100
    [] c = "e" -> 101 [] c = "f" -> 102 [] c = "g" -> 103 [] c = "h" -> 104
    [] c = "i" -> 105 [] c = "k" -> 107 [] c = "l" -> 108 [] c = "m" -> 109
    [] c = "n" -> 110 [] c = "o" -> 111 [] c = "p" -> 112 [] c = "r" -> 114
    [] c = "s" -> 115 [] c = "t" -> 116 [] c = "u" -> 117 [] c = "v" -> 118
    [] c = "w" -> 119 [] c = "x" -> 120 [] c = "y" -> 121 [] c = "z" -> 122

IsDigit(c) == c \in {"0", "1", "2", "3", "4", "5", "6", "7", "8", "9"}
DigitVal(c) ==
  CASE c = "0" -> 0 [] c = "1" -> 1 [] c = "2" -> 2 [] c = "3" -> 3
    [] c = "4" -> 4 [] c = "5" -> 5 [] c = "6" -> 6 [] c = "7" -> 7
    [] c = "8" -> 8 [] c = "9" -> 9
DigitChar(d) == <<"0", "1", "2", "3", "4", "5", "6", "7", "8", "9">>[d + 1]

\* String.prototype.slice(from, to) with 0-based, end-exclusive indices.
Slice(cs, from, to) ==
  SubSeq(cs, from + 1, IF to < Len(cs) THEN to ELSE Len(cs))

\* /^prefix/.test(cs)
StartsWith(cs, prefix) ==
  /\ Len(cs) >= Len(prefix)
  /\ SubSeq(cs, 1, Len(prefix)) = prefix

\* a < b in code-unit order (the order of the default Array.prototype.sort).
RECURSIVE StrLess(_, _)
StrLess(a, b) ==
  IF b = <<>> THEN FALSE
  ELSE IF a = <<>> THEN TRUE
  ELSE IF CharCode(Head(a)) # CharCode(Head(b))
       THEN CharCode(Head(a)) < CharCode(Head(b))
  ELSE StrLess(Tail(a), Tail(b))

\* The decimal digits of a natural number.
RECURSIVE NatToStr(_)
NatToStr(i) ==
  IF i < 10 THEN <<DigitChar(i)>>
  ELSE NatToStr(i \div 10) \o <<DigitChar(i % 10)>>

\* The decimal digits of a natural number, left-padded with zeros to width w.
RECURSIVE Pad(_, _)
Pad(cs, w) == IF Len(cs) >= w THEN cs ELSE Pad(<<"0">> \o cs, w)

\* ToStr(v), as string concatenation, property lookup and the default
\* sort apply it.
ToStr(v) ==
  CASE v.t = "str" -> v.s
    [] v.t = "undef" -> <<"u", "n", "d", "e", "f", "i", "n", "e", "d">>
    [] v.t = "nan" -> <<"N", "a", "N">>
    [] v.t = "num" ->
         IF v.k # 0
         THEN (IF v.k < 0 THEN <<"-">> ELSE <<>>) \o
              <<"9", "0", "0", "7", "1", "9", "9", "2", "5", "4", "7", "4",
                "0", "9", "9", "1">>
         ELSE IF v.n < 0 THEN <<"-">> \o NatToStr(-v.n) ELSE NatToStr(v.n)

\* The value of the longest prefix of decimal digits of cs, and its length.
RECURSIVE DigitsPrefix(_, _, _)
DigitsPrefix(cs, acc, cnt) ==
  IF cs # <<>> /\ IsDigit(Head(cs))
  THEN DigitsPrefix(Tail(cs), 10 * acc + DigitVal(Head(cs)), cnt + 1)
  ELSE [val |-> acc, len |-> cnt]

RECURSIVE TrimLeft(_)
TrimLeft(cs) ==
  IF cs # <<>> /\ Head(cs) = " " THEN TrimLeft(Tail(cs)) ELSE cs

RECURSIVE TrimRight(_)
TrimRight(cs) ==
  IF cs # <<>> /\ cs[Len(cs)] = " "
  THEN TrimRight(SubSeq(cs, 1, Len(cs) - 1)) ELSE cs

\* parseInt(v) with the default radix: ToStr, skip leading blanks, an
\* optional sign, then the longest run of decimal digits; NaN when there is
\* none.  (No string of the model starts with the hexadecimal prefix 0x.)
parseInt(v) ==
  LET cs == TrimLeft(ToStr(v))
      neg == cs # <<>> /\ Head(cs) = "-"
      body == IF neg THEN Tail(cs) ELSE cs
      p == DigitsPrefix(body, 0, 0)
  IN  IF v.t = "num" /\ v.k # 0 THEN v
      ELSE IF p.len = 0 THEN NaN
      ELSE Num(IF neg THEN -p.val ELSE p.val)

\* ToNumber(string): blanks trimmed, the empty string is 0, a signed run of
\* decimal digits is its value, anything else is NaN.  (The model's strings
\* hold no fraction, exponent or radix prefix.)
StringToNumber(cs) ==
  LET tr == TrimRight(TrimLeft(cs))
      neg == tr # <<>> /\ Head(tr) = "-"
      body == IF neg THEN Tail(tr) ELSE tr
      p == DigitsPrefix(body, 0, 0)
  IN  IF tr = <<>> THEN Num(0)
      ELSE IF p.len = 0 \/ p.len # Len(body) THEN NaN
      ELSE Num(IF neg THEN -p.val ELSE p.val)

\* a === b
StrictEquals(a, b) ==
  /\ a.t = b.t
  /\ a.t # "nan"
  /\ a = b

\* a == b
LooseEquals(a, b) ==
  CASE a.t = b.t -> StrictEquals(a, b)
    [] a.t = "num" /\ b.t = "str" -> StrictEquals(a, StringToNumber(b.s))
    [] a.t = "str" /\ b.t = "num" -> StrictEquals(StringToNumber(a.s), b)
    [] OTHER -> FALSE

\* a < b on numbers; every comparison with NaN is false.
NumLess(a, b) ==
  /\ a.t = "num"
  /\ b.t = "num"
  /\ \/ a.k < b.k
     \/ a.k = b.k /\ a.n < b.n

\* a + b on numbers; NaN when either operand is NaN.
NumAdd(a, b) ==
  IF a.t = "num" /\ b.t = "num" THEN Num(a.n + b.n) ELSE NaN

(***************************************************************************)
(* Date: new Date(val).toISOString().  The model's date values are ISO     *)
(* date-only strings (YYYY-MM-DD, read as UTC midnight), strings no engine *)
(* reads as a date, undefined, and small epoch-millisecond numbers.        *)
(***************************************************************************)
MsPerDay == 86400000

DaysInMonth(y, m) ==
  CASE m \in {1, 3, 5, 7, 8, 10, 12} -> 31
    [] m \in {4, 6, 9, 11} -> 30
    [] OTHER -> IF y % 4 = 0 /\ (y % 100 # 0 \/ y % 400 = 0) THEN 29 ELSE 28

AllDigits(cs) == \A i \in 1..Len(cs) : IsDigit(cs[i])

\* new Date(val): [ok |-> FALSE] is an Invalid Date.
NewDate(val) ==
  CASE val.t = "str" ->
         LET cs == val.s
             wellFormed ==
               /\ Len(cs) = 10
               /\ cs[5] = "-" /\ cs[8] = "-"
               /\ AllDigits(SubSeq(cs, 1, 4))
               /\ AllDigits(SubSeq(cs, 6, 7))
               /\ AllDigits(SubSeq(cs, 9, 10))
             y == DigitsPrefix(SubSeq(cs, 1, 4), 0, 0).val
             m == DigitsPrefix(SubSeq(cs, 6, 7), 0, 0).val
             d == DigitsPrefix(SubSeq(cs, 9, 10), 0, 0).val
         IN  IF wellFormed /\ m \in 1..12 /\ d \in 1..DaysInMonth(y, m)
             THEN [ok |-> TRUE, y |-> y, m |-> m, d |-> d]
             ELSE [ok |-> FALSE, y |-> 0, m |-> 0, d |-> 0]
    [] val.t = "num" /\ val.k = 0 /\ val.n >= 0 /\ val.n \div MsPerDay < 31 ->
         [ok |-> TRUE, y |-> 1970, m |-> 1, d |-> 1 + (val.n \div MsPerDay)]
    [] OTHER -> [ok |-> FALSE, y |-> 0, m |-> 0, d |-> 0]

\* The first ten characters of Date.prototype.toISOString(), YYYY-MM-DD (the
\* code slices at most ten).
toISOString(date) ==
  Pad(NatToStr(date.y), 4) \o <<"-">> \o Pad(NatToStr(date.m), 2) \o
  <<"-">> \o Pad(NatToStr(date.d), 2)

(***************************************************************************)
(* The two regular expressions of the parser.                              *)
(***************************************************************************)
\* The least index of c in cs at or after from, 0 when there is none.
RECURSIVE FirstIndex(_, _, _)
FirstIndex(cs, c, from) ==
  IF from > Len(cs) THEN 0
  ELSE IF cs[from] = c THEN from
  ELSE FirstIndex(cs, c, from + 1)

\* The greatest index of c in cs, 0 when there is none.
RECURSIVE LastIndex(_, _, _)
LastIndex(cs, c, from) ==
  IF from < 1 THEN 0
  ELSE IF cs[from] = c THEN from
  ELSE LastIndex(cs, c, from - 1)

\* cs.match(/\((.*)\)/): the text between the first "(" and the last ")"
\* after it (the star is greedy); null when there is no such pair.
MatchParens(cs) ==
  LET open == FirstIndex(cs, "(", 1)
      close == LastIndex(cs, ")", Len(cs))
  IN  IF open # 0 /\ close > open
      THEN [null |-> FALSE, inner |-> SubSeq(cs, open + 1, close - 1)]
      ELSE [null |-> TRUE, inner |-> <<>>]

\* cs.split(/,/)
RECURSIVE Split(_)
Split(cs) ==
  LET i == FirstIndex(cs, ",", 1)
  IN  IF i = 0 THEN <<cs>>
      ELSE <<SubSeq(cs, 1, i - 1)>> \o Split(SubSeq(cs, i + 1, Len(cs)))

sDateTrunc == <<"d", "a", "t", "e", "_", "t", "r", "u", "n", "c">>
sDay == <<"d", "a", "y">>
sMonth == <<"m", "o", "n", "t", "h">>
sYear == <<"y", "e", "a", "r">>
sSum == <<"s", "u", "m">>
sMax == <<"m", "a", "x">>
sMin == <<"m", "i", "n">>
sCount == <<"c", "o", "u", "n", "t">>
sBoxplot == <<"b", "o", "x", "p", "l", "o", "t">>
sSep == <<" ", ">", " ">>

(***************************************************************************)
(* The mixin.                                                              *)
(***************************************************************************)
\* rec[key], undefined when the record has no such property.
Get(rec, key) == IF key \in DOMAIN rec THEN rec[key] ELSE Undef

\* A membership test that never finds the value.
IN_NeverFound(list, val) == FALSE

\* IN(list, val) of the source (IN is a reserved word of TLA+):
\* list.indexOf(val) != -1, and indexOf compares with ===.
IN_(list, val) == \E i \in 1..Len(list) : StrictEquals(list[i], val)

\* An applyModifier whose month branch slices like the day branch.
applyModifier_MonthAsDay(val, group) ==
  IF group.modifier.t = "undef" THEN val
  ELSE IF StartsWith(ToStr(group.modifier), sDateTrunc)
  THEN LET truncType == group.modifierParams[1]
           date == NewDate(val)
           cut == CASE StartsWith(truncType, sDay) -> 10
                    [] StartsWith(truncType, sMonth) -> 10
                    [] StartsWith(truncType, sYear) -> 4
                    [] OTHER -> 0
       IN  IF cut # 0 /\ date.ok
           THEN Str(Slice(toISOString(date), 0, cut))
           ELSE val
  ELSE val

\* applyModifier(val, group)
applyModifier(val, group) ==
  IF group.modifier.t = "undef" THEN val
  ELSE IF StartsWith(ToStr(group.modifier), sDateTrunc)
  THEN LET truncType == group.modifierParams[1]
           date == NewDate(val)
           cut == CASE StartsWith(truncType, sDay) -> 10
                    [] StartsWith(truncType, sMonth) -> 7
                    [] StartsWith(truncType, sYear) -> 4
                    [] OTHER -> 0
       IN  IF cut # 0 /\ date.ok
           THEN Str(Slice(toISOString(date), 0, cut))
           ELSE val
  ELSE val

\* parseAggStr(str): match[1], and a TypeError when match is null.
parseAggStr(str) ==
  LET match == MatchParens(str)
  IN  [threw |-> match.null, val |-> Str(match.inner)]

\* A parseGroupByField whose default branch clears the modifier of a field
\* that carries no date_trunc.
parseGroupByField_ResetsModifier(group, str) ==
  IF StartsWith(ToStr(str), sDateTrunc)
  THEN LET match == MatchParens(ToStr(str))
           params == Split(match.inner)
       IN  IF ~match.null
           THEN [group EXCEPT !.modifier = Str(sDateTrunc),
                              !.modifierParams = params,
                              !.field = IF Len(params) >= 2
                                        THEN Str(params[2]) ELSE Undef]
           ELSE group
  ELSE [group EXCEPT !.modifier = Undef, !.modifierParams = <<>>]

\* parseGroupByField(group, str)
parseGroupByField(group, str) ==
  IF StartsWith(ToStr(str), sDateTrunc)
  THEN LET match == MatchParens(ToStr(str))
           params == Split(match.inner)
       IN  IF ~match.null
           THEN [group EXCEPT !.modifier = Str(sDateTrunc),
                              !.modifierParams = params,
                              !.field = IF Len(params) >= 2
                                        THEN Str(params[2]) ELSE Undef]
           ELSE group
  ELSE group

\* data[i][group.field], modified: the value a record is grouped under.
GroupValue(rec, group) ==
  applyModifier(Get(rec, ToStr(group.field)), group)

\* The first loop of groupBy: the group values in order of first occurrence.
RECURSIVE UniqueNames(_, _, _)
UniqueNames(recs, group, names) ==
  IF recs = <<>> THEN names
  ELSE UniqueNames(Tail(recs), group,
                   IF ~IN_(names, GroupValue(Head(recs), group))
                   THEN Append(names, GroupValue(Head(recs), group))
                   ELSE names)

\* The order of the default sort: undefined goes last, everything else is
\* compared as a string, by code units.
SortLess(x, y) ==
  /\ x.t # "undef"
  /\ \/ y.t = "undef"
     \/ StrLess(ToStr(x), ToStr(y))

\* x put before the first name it sorts before: a stable insertion.
RECURSIVE InsertName(_, _)
InsertName(sorted, x) ==
  IF sorted = <<>> THEN <<x>>
  ELSE IF SortLess(x, Head(sorted)) THEN <<x>> \o sorted
  ELSE <<Head(sorted)>> \o InsertName(Tail(sorted), x)

RECURSIVE SortNamesFrom(_, _)
SortNamesFrom(list, acc) ==
  IF list = <<>> THEN acc
  ELSE SortNamesFrom(Tail(list), InsertName(acc, Head(list)))

\* names.sort()
SortNames(names) == SortNamesFrom(names, <<>>)

RECURSIVE InsertNumber(_, _)
InsertNumber(sorted, x) ==
  IF sorted = <<>> THEN <<x>>
  ELSE IF NumLess(x, Head(sorted)) THEN <<x>> \o sorted
  ELSE <<Head(sorted)>> \o InsertNumber(Tail(sorted), x)

RECURSIVE SortNumbersFrom(_, _)
SortNumbersFrom(list, acc) ==
  IF list = <<>> THEN acc
  ELSE SortNumbersFrom(Tail(list), InsertNumber(acc, Head(list)))

\* A bucket loop that stores the modified group value on the record it
\* pushes.
Matching_WritesBack(recs, group, name) ==
  LET Test(rec) == LooseEquals(GroupValue(rec, group), name)
      f == SelectSeq(recs, Test)
      key == ToStr(group.field)
  IN  [i \in 1..Len(f) |->
         IF key \in DOMAIN f[i]
         THEN [f[i] EXCEPT ![key] = GroupValue(f[i], group)]
         ELSE f[i]]

\* A bucket loop that puts each matching record in front of the earlier
\* ones.
Matching_Reversed(recs, group, name) ==
  LET Test(rec) == LooseEquals(GroupValue(rec, group), name)
      f == SelectSeq(recs, Test)
  IN  [i \in 1..Len(f) |-> f[Len(f) + 1 - i]]

\* The records of recs whose group value == name: the inner loop of groupBy,
\* and the test every loop of aggFunction repeats.
Matching(recs, group, name) ==
  LET Test(rec) == LooseEquals(GroupValue(rec, group), name)
  IN  SelectSeq(recs, Test)

(***************************************************************************)
(* Quartile.  q is given in quarters (1, 2, 3 for 0.25, 0.5, 0.75) and the *)
(* result is a number of quarters, Quarter(i) standing for i / 4: with     *)
(* integer elements every intermediate value is a multiple of 1/4, which   *)
(* binary floating point represents exactly.                               *)
(***************************************************************************)
Quarter(i) == [t |-> "q4", k |-> 0, n |-> i, s |-> <<>>]

\* The outcome of a sort whose comparison function is not consistent, which
\* the language leaves to the implementation.
ImplDefined == [t |-> "impldef", k |-> 0, n |-> 0, s |-> <<>>]

\* A sort without the comparison function: the default order, by strings.
Array_Sort_Default(inputarray) ==
  [defined |-> TRUE, arr |-> SortNames(inputarray)]

\* Array_Sort_Numbers(inputarray): sort with (a, b) => a - b.  a - b is NaN
\* when either is NaN, which sort reads as "equal"; the function is then
\* consistent only if all the numbers are equal, and the stable sort leaves
\* the array as it is.
Array_Sort_Numbers(inputarray) ==
  LET hasNaN == \E i \in 1..Len(inputarray) : inputarray[i].t # "num"
      allEqual == \A i, j \in 1..Len(inputarray) :
                    (inputarray[i].t = "num" /\ inputarray[j].t = "num")
                      => inputarray[i] = inputarray[j]
  IN  IF ~hasNaN
      THEN [defined |-> TRUE, arr |-> SortNumbersFrom(inputarray, <<>>)]
      ELSE IF allEqual
      THEN [defined |-> TRUE, arr |-> inputarray]
      ELSE [defined |-> FALSE, arr |-> inputarray]

\* Quartile(data, q): the value returned and the array as the call leaves it
\* (the sort is in place).
Quartile(arr, q) ==
  LET sorted == Array_Sort_Numbers(arr)
      d == sorted.arr
      pos == (Len(d) - 1) * q
      base == pos \div 4
      rest == pos - 4 * base
      At(i) == IF i >= 0 /\ i < Len(d) THEN d[i + 1] ELSE Undef
      lo == At(base)
      hi == At(base + 1)
      val ==
        IF hi.t # "undef"
        THEN IF lo.t = "num" /\ hi.t = "num"
             THEN Quarter(4 * lo.n + rest * (hi.n - lo.n))
             ELSE NaN
        ELSE IF lo.t = "num" THEN Quarter(4 * lo.n) ELSE lo
  IN  IF sorted.defined
      THEN [val |-> val, data |-> d]
      ELSE [val |-> ImplDefined, data |-> d]

Quartile_25(arr) == Quartile(arr, 1)
Quartile_50(arr) == Quartile(arr, 2)
Quartile_75(arr) == Quartile(arr, 3)
Median(arr) == Quartile_50(arr)

(***************************************************************************)
(* aggFunction                                                             *)
(***************************************************************************)
\* data[i][aggField], integer-parsed.
AggValue(rec, dataset) == parseInt(Get(rec, ToStr(dataset.aggField)))

RECURSIVE SumOf(_, _, _)
SumOf(recs, dataset, returnNum) ==
  IF recs = <<>> THEN returnNum
  ELSE SumOf(Tail(recs), dataset, NumAdd(AggValue(Head(recs), dataset), returnNum))

\* A running maximum with the comparison the wrong way round.
RECURSIVE MaxOf_Reversed(_, _, _)
MaxOf_Reversed(recs, dataset, returnNum) ==
  IF recs = <<>> THEN returnNum
  ELSE MaxOf_Reversed(Tail(recs), dataset,
                      IF NumLess(AggValue(Head(recs), dataset), returnNum)
                      THEN AggValue(Head(recs), dataset) ELSE returnNum)

RECURSIVE MaxOf(_, _, _)
MaxOf(recs, dataset, returnNum) ==
  IF recs = <<>> THEN returnNum
  ELSE MaxOf(Tail(recs), dataset,
             IF NumLess(returnNum, AggValue(Head(recs), dataset))
             THEN AggValue(Head(recs), dataset) ELSE returnNum)

RECURSIVE MinOf(_, _, _)
MinOf(recs, dataset, returnNum) ==
  IF recs = <<>> THEN returnNum
  ELSE MinOf(Tail(recs), dataset,
             IF NumLess(AggValue(Head(recs), dataset), returnNum)
             THEN AggValue(Head(recs), dataset) ELSE returnNum)

\* A count whose loop starts at the second record.
CountOf_SkipFirst(recs) == Num(IF recs = <<>> THEN 0 ELSE Len(recs) - 1)

CountOf(recs) == Num(Len(recs))

BoxplotOf(recs, dataset) ==
  LET arrayOfValues == [i \in 1..Len(recs) |-> AggValue(recs[i], dataset)]
      r25 == Quartile_25(arrayOfValues)
      r50 == Quartile_50(r25.data)
      r75 == Quartile_75(r50.data)
  IN  [t |-> "boxplot",
       max |-> MaxOf(recs, dataset, MIN_SAFE_INTEGER),
       min |-> MinOf(recs, dataset, MAX_SAFE_INTEGER),
       median |-> r50.val, q1 |-> r25.val, q3 |-> r75.val]

\* One pass of the loop over group.datasets: what the dataset pushes onto
\* returnArray (nothing for an unknown function).
AggOne(matching, dataset) ==
  LET str == dataset.data
  IN  CASE StartsWith(str, sSum) -> <<SumOf(matching, dataset, Num(0))>>
        [] StartsWith(str, sMax) -> <<MaxOf(matching, dataset, MIN_SAFE_INTEGER)>>
        [] StartsWith(str, sMin) -> <<MinOf(matching, dataset, MAX_SAFE_INTEGER)>>
        [] StartsWith(str, sCount) -> <<CountOf(matching)>>
        [] StartsWith(str, sBoxplot) -> <<BoxplotOf(matching, dataset)>>
        [] OTHER -> <<>>

RECURSIVE AggLoop(_, _, _, _)
AggLoop(matching, datasets, j, returnArray) ==
  IF j > Len(datasets) THEN returnArray
  ELSE AggLoop(matching, datasets, j + 1,
               returnArray \o AggOne(matching, datasets[j]))

\* aggFunction(me, data, group, name)
aggFunction(recs, group, name) ==
  AggLoop(Matching(recs, group, name), group.datasets, 1, <<>>)

\* pathAggFunction(me, data, groups, group, name)
RECURSIVE PathLoop(_, _, _, _, _)
PathLoop(recs, fullGroupBy, group, i, path) ==
  IF i > Len(fullGroupBy) THEN path
  ELSE LET part == ToStr(GroupValue(recs[1], fullGroupBy[i]))
       IN  IF ~LooseEquals(fullGroupBy[i].field, group.field)
           THEN PathLoop(recs, fullGroupBy, group, i + 1, path \o part \o sSep)
           ELSE path \o part

pathAggFunction(recs, fullGroupBy, group, name) ==
  Str(PathLoop(recs, fullGroupBy, group, 1, <<>>))

(***************************************************************************)
(* groupBy.  The spec objects are shared and written in place, so the      *)
(* whole list is threaded through the recursion: level k of the recursion  *)
(* works on fullGroupBy[k], which is groups[0] of its call (the caller     *)
(* passes the same array as groups and as fullGroupBy).  A result holds    *)
(* whether the call threw, the value returned, the spec objects as the     *)
(* call leaves them and the number of aggFunc calls made.                  *)
(***************************************************************************)
\* The loop that sets datasets[i].aggField; it stops at the first throw.
RECURSIVE ParseDatasets(_, _)
ParseDatasets(datasets, i) ==
  IF i > Len(datasets) THEN [threw |-> FALSE, datasets |-> datasets]
  ELSE LET parsed == parseAggStr(datasets[i].data)
       IN  IF parsed.threw THEN [threw |-> TRUE, datasets |-> datasets]
           ELSE ParseDatasets([datasets EXCEPT ![i].aggField = parsed.val], i + 1)

\* Object.assign({}, data): a plain object with the properties "0", "1", ...
\* of the array, and not an array.
ObjectAssign(recs) == [kind |-> "Object", elems |-> recs]
ArrayOf(nodes) == [kind |-> "Array", elems |-> nodes]

RECURSIVE groupBy(_, _, _)
RECURSIVE NodeLoop(_, _, _, _, _, _, _)

\* The loop over names: one node per name, in order.
NodeLoop(recs, level, fullGroupBy, names, index, r, aggCalls) ==
  IF index > Len(names)
  THEN [threw |-> FALSE, val |-> ArrayOf(r), groups |-> fullGroupBy,
        aggCalls |-> aggCalls]
  ELSE LET name == names[index]
           group == fullGroupBy[level]
           f == Matching(recs, group, name)
           y == aggFunction(f, group, name)
           sub == groupBy(f, level + 1, fullGroupBy)
       IN  IF sub.threw
           THEN [threw |-> TRUE, val |-> ArrayOf(<<>>), groups |-> sub.groups,
                 aggCalls |-> aggCalls + 1 + sub.aggCalls]
           ELSE NodeLoop(recs, level, sub.groups, names, index + 1,
                         Append(r, [name |-> name,
                                    y |-> y,
                                    drilldown |-> sub.val,
                                    group |-> level,
                                    path |-> pathAggFunction(f, sub.groups,
                                               sub.groups[level], name),
                                    data |-> f]),
                         aggCalls + 1 + sub.aggCalls)

\* A groupBy whose base case is reached with one spec still to go.
groupBy_StopsEarly(recs, level, fullGroupBy) ==
  IF level >= Len(fullGroupBy)
  THEN [threw |-> FALSE, val |-> ObjectAssign(recs), groups |-> fullGroupBy,
        aggCalls |-> 0]
  ELSE LET parsed == ParseDatasets(fullGroupBy[level].datasets, 1)
           withAgg == [fullGroupBy[level] EXCEPT !.datasets = parsed.datasets]
           group == parseGroupByField(withAgg, withAgg.field)
           G == [fullGroupBy EXCEPT ![level] =
                   IF parsed.threw THEN withAgg ELSE group]
       IN  IF parsed.threw
           THEN [threw |-> TRUE, val |-> ArrayOf(<<>>), groups |-> G,
                 aggCalls |-> 0]
           ELSE NodeLoop(recs, level, G,
                         SortNames(UniqueNames(recs, group, <<>>)), 1, <<>>, 0)

\* groupBy(data, groups, fullGroupBy), groups being fullGroupBy from level on.
groupBy(recs, level, fullGroupBy) ==
  IF level > Len(fullGroupBy)
  THEN [threw |-> FALSE, val |-> ObjectAssign(recs), groups |-> fullGroupBy,
        aggCalls |-> 0]
  ELSE LET parsed == ParseDatasets(fullGroupBy[level].datasets, 1)
           withAgg == [fullGroupBy[level] EXCEPT !.datasets = parsed.datasets]
           group == parseGroupByField(withAgg, withAgg.field)
           G == [fullGroupBy EXCEPT ![level] =
                   IF parsed.threw THEN withAgg ELSE group]
       IN  IF parsed.threw
           THEN [threw |-> TRUE, val |-> ArrayOf(<<>>), groups |-> G,
                 aggCalls |-> 0]
           ELSE NodeLoop(recs, level, G,
                         SortNames(UniqueNames(recs, group, <<>>)), 1, <<>>, 0)

(***************************************************************************)
(* Inputs.                                                                 *)
(***************************************************************************)
MaxRecs == 3
MaxArr == 4
MaxModRecs == 1

fG == <<"g">>
fD == <<"d">>
fV == <<"v">>

Jan15 == Str(<<"2", "0", "1", "8", "-", "0", "1", "-", "1", "5">>)
Jan20 == Str(<<"2", "0", "1", "8", "-", "0", "1", "-", "2", "0">>)
Feb03 == Str(<<"2", "0", "1", "8", "-", "0", "2", "-", "0", "3">>)

\* A record is a function from its property names to values.
Rec(g, d, v) == (fG :> g) @@ (fD :> d) @@ (fV :> v)

Records ==
  { Rec(Num(10), Jan15, Str(<<"1", "0">>)),
    Rec(Str(<<"0", "1", "0">>), Jan20, Num(5)),
    Rec(Num(2), Jan20, Str(<<"a", "b", "c">>)),
    (fD :> Str(<<"x">>)),
    Rec(Str(<<"a">>), Feb03, Str(<<"-", "3", "x">>)) }

RecordLists == UNION { [1..n -> Records] : n \in 0..MaxRecs }

\* A spec object as the caller writes it: a field and the datasets' strings.
Group(field, strs) ==
  [field |-> Str(field), modifier |-> Undef, modifierParams |-> <<>>,
   datasets |-> [i \in 1..Len(strs) |-> [data |-> strs[i], aggField |-> Undef]]]

Call(fn, arg) == fn \o <<"(">> \o arg \o <<")">>
DateTrunc(unit, field) == Call(sDateTrunc, unit \o <<",">> \o field)

GroupLists ==
  { <<>>,
    <<Group(fG, <<Call(sSum, fV), Call(sMax, fV), Call(sMin, fV),
                  Call(sCount, fV), Call(sBoxplot, fV)>>)>>,
    <<Group(fG, <<Call(<<"a", "v", "g">>, fV), Call(sCount, <<>>)>>)>>,
    <<Group(fG, <<sCount>>)>>,
    <<Group(DateTrunc(sMonth, fD), <<Call(sSum, fV), Call(sBoxplot, fV)>>),
      Group(DateTrunc(sDay, fD), <<Call(sCount, fV)>>)>>,
    <<Group(fD, <<Call(sCount, fV)>>),
      Group(fG, <<Call(sSum, fV), Call(sMin, fV), Call(sMax, fV)>>)>>,
    <<Group(fG, <<Call(sSum, fV)>>), Group(fD, <<sCount>>)>>,
    <<Group(DateTrunc(<<"w", "e", "e", "k">>, fD), <<Call(sCount, fG)>>)>>,
    <<Group(DateTrunc(sYear, fD), <<Call(sMin, fV), Call(sMax, fV)>>),
      Group(fG, <<>>), Group(fV, <<Call(sCount, fV)>>)>> }

\* The names a caller hands to aggFunction on its own.
AggNames == { Num(10), Str(<<"z">>) }

\* The values a caller hands to applyModifier on its own: dates, a string
\* that is no date, a missing value and epoch milliseconds.
ModifierValues ==
  { Jan15, Jan20, Feb03, Str(<<"x">>), Undef, Num(10), Num(5) }

ArrValues == { 1, 2, 3, 4 }
Arrays == UNION { [1..n -> { Num(i) : i \in ArrValues }] : n \in 0..MaxArr }
Quarters == { 1, 2, 3 }

(***************************************************************************)
(* The state: the caller's record list, the caller's spec objects, the     *)
(* caller's array of numbers, and the outcome of the last call.            *)
(***************************************************************************)
VARIABLES data, groups, arr, ret

vars == <<data, groups, arr, ret>>

NoCall == [op |-> "none"]

Init ==
  /\ ret = NoCall
  /\ \/ /\ data \in RecordLists
        /\ groups \in GroupLists
        /\ arr = <<>>
     \/ /\ data = <<>>
        /\ groups = <<>>
        /\ arr \in Arrays

\* this.groupBy(data, groups, groups).  The call may follow another one on
\* the same records, and then works on the spec objects as that call left
\* them; "again" tells such a call from a first one.
GroupByCall ==
  LET res == groupBy(data, 1, groups)
  IN  /\ groups' = res.groups
      /\ ret' = [op |-> "groupBy", threw |-> res.threw, val |-> res.val,
                 aggCalls |-> res.aggCalls, again |-> ret.op = "groupBy"]
      /\ UNCHANGED <<data, arr>>

\* this.aggFunction(this, data, groups[0], name), called on its own with the
\* spec object a groupBy call has just worked on.
AggFunctionCall ==
  /\ ret.op = "groupBy"
  /\ groups # <<>>
  /\ \E name \in AggNames :
       ret' = [op |-> "aggFunction", name |-> name,
               val |-> aggFunction(data, groups[1], name)]
  /\ UNCHANGED <<data, groups, arr>>

\* this.Quartile(arr, q) on a non-empty array
QuartileCall ==
  /\ arr # <<>>
  /\ \E q \in Quarters :
       LET res == Quartile(arr, q)
       IN  /\ arr' = res.data
           /\ ret' = [op |-> "Quartile", q |-> q, before |-> arr,
                      val |-> res.val]
           /\ UNCHANGED <<data, groups>>

\* this.applyModifier(val, groups[i]), called on its own with a spec object
\* of the list a groupBy call has just worked on.
ApplyModifierCall ==
  /\ ret.op = "groupBy"
  /\ Len(data) <= MaxModRecs
  /\ \E i \in 1..Len(groups) :
       \E val \in ModifierValues :
         ret' = [op |-> "applyModifier", val |-> val, group |-> groups[i],
                 out |-> applyModifier(val, groups[i])]
  /\ UNCHANGED <<data, groups, arr>>

Next ==
  \/ GroupByCall
  \/ AggFunctionCall
  \/ QuartileCall
  \/ ApplyModifierCall

Spec == Init /\ [][Next]_vars

(***************************************************************************)
(* Reading the tree a groupBy call returned.                               *)
(***************************************************************************)
Returned == ret.op = "groupBy" /\ ~ret.threw

\* Every node of a tree, with the records its level was built from (parent),
\* the names of its ancestors from the first level down, its level and its
\* position among its siblings.
RECURSIVE NodesOf(_, _, _, _)
NodesOf(val, parent, anc, level) ==
  IF val.kind # "Array" THEN {}
  ELSE UNION { {[node |-> val.elems[i], parent |-> parent, anc |-> anc,
                 level |-> level, pos |-> i]}
               \cup NodesOf(val.elems[i].drilldown, val.elems[i].data,
                            Append(anc, val.elems[i].name), level + 1)
               : i \in 1..Len(val.elems) }

\* Every sequence of sibling nodes of a tree, with the records it partitions.
RECURSIVE SiblingsOf(_, _, _)
SiblingsOf(val, parent, level) ==
  IF val.kind # "Array" THEN {}
  ELSE {[nodes |-> val.elems, parent |-> parent, level |-> level]}
       \cup UNION { SiblingsOf(val.elems[i].drilldown, val.elems[i].data,
                               level + 1) : i \in 1..Len(val.elems) }

TreeNodes == IF Returned THEN NodesOf(ret.val, data, <<>>, 1) ELSE {}
TreeSiblings == IF Returned THEN SiblingsOf(ret.val, data, 1) ELSE {}

\* The number of times rec occurs in the list recs.
Occurrences(rec, recs) == Cardinality({i \in 1..Len(recs) : recs[i] = rec})

RECURSIVE SumOccurrences(_, _, _)
SumOccurrences(rec, nodes, i) ==
  IF i > Len(nodes) THEN 0
  ELSE Occurrences(rec, nodes[i].data) + SumOccurrences(rec, nodes, i + 1)

(***************************************************************************)
(* C1  Partition completeness: at every level the buckets of the sibling   *)
(* nodes partition the parent's records: each record of the parent is in   *)
(* the buckets exactly as often as it is in the parent's list, also when   *)
(* group values differ in type and compare equal loosely.                  *)
(***************************************************************************)
C1_Partition ==
  \A sib \in TreeSiblings :
    \A k \in 1..Len(sib.parent) :
      SumOccurrences(sib.parent[k], sib.nodes, 1)
        = Occurrences(sib.parent[k], sib.parent)

(***************************************************************************)
(* C2  Sibling ordering: the siblings of a level are in ascending order of *)
(* name, numbers compared as numbers and strings by code units.            *)
(***************************************************************************)
C2_Ascending ==
  \A sib \in TreeSiblings :
    \A i, j \in 1..Len(sib.nodes) :
      i < j =>
        LET a == sib.nodes[i].name
            b == sib.nodes[j].name
        IN  /\ (a.t = "num" /\ b.t = "num") => NumLess(a, b)
            /\ (a.t = "str" /\ b.t = "str") => StrLess(a.s, b.s)

(***************************************************************************)
(* C3  Sibling distinctness: the siblings of a level have pairwise         *)
(* distinct names, every name is the group value of a record of the        *)
(* parent's bucket, and no node has an empty bucket.                       *)
(***************************************************************************)
C3_Distinct ==
  \A sib \in TreeSiblings :
    /\ \A i, j \in 1..Len(sib.nodes) :
         i # j => sib.nodes[i].name # sib.nodes[j].name
    /\ \A i \in 1..Len(sib.nodes) :
         /\ \E k \in 1..Len(sib.parent) :
              GroupValue(sib.parent[k], groups[sib.level]) = sib.nodes[i].name
         /\ sib.nodes[i].data # <<>>

\* A second level with two siblings under a parent holding three records.
C3_Witness ==
  \E sib \in TreeSiblings :
    /\ sib.level = 2
    /\ Len(sib.nodes) = 2
    /\ Len(sib.parent) = 3

(***************************************************************************)
(* Reading aggregate results.                                              *)
(***************************************************************************)
Known(str) ==
  \/ StartsWith(str, sSum) \/ StartsWith(str, sMax) \/ StartsWith(str, sMin)
  \/ StartsWith(str, sCount) \/ StartsWith(str, sBoxplot)

\* Where the result of dataset j is found in y: the known functions push
\* their results one after the other.
ResultIndex(datasets, j) ==
  Cardinality({i \in 1..j : Known(datasets[i].data)})

ResultOf(y, datasets, j) == y[ResultIndex(datasets, j)]

\* Every aggregation at hand: the y of each node of the returned tree with
\* the node's bucket, and the result of an aggFunction call made on its own
\* with the records that match its name.
AggResults ==
  { [y |-> e.node.y, recs |-> e.node.data,
     datasets |-> groups[e.level].datasets, node |-> TRUE] : e \in TreeNodes }
  \cup
  IF ret.op = "aggFunction"
  THEN {[y |-> ret.val, recs |-> Matching(data, groups[1], ret.name),
         datasets |-> groups[1].datasets, node |-> FALSE]}
  ELSE {}

\* The integer-parsed aggregate-field values of the records, in order.
Parsed(recs, dataset) ==
  [i \in 1..Len(recs) |-> parseInt(Get(recs[i], ToStr(dataset.aggField)))]

RECURSIVE SumOrZero(_, _)
SumOrZero(vals, i) ==
  IF i > Len(vals) THEN 0
  ELSE (IF vals[i].t = "num" THEN vals[i].n ELSE 0) + SumOrZero(vals, i + 1)

(***************************************************************************)
(* C4  Sum correctness: the result of a sum series of a node is the sum of *)
(* the integer-parsed aggregate-field values of the records of the node's  *)
(* bucket, a non-numeric or missing value counting as 0.                   *)
(***************************************************************************)
C4_SumOrZero ==
  \A a \in AggResults :
    \A j \in 1..Len(a.datasets) :
      (a.node /\ StartsWith(a.datasets[j].data, sSum)) =>
        ResultOf(a.y, a.datasets, j)
          = Num(SumOrZero(Parsed(a.recs, a.datasets[j]), 1))

Numbers(vals) == {vals[i] : i \in {k \in 1..Len(vals) : vals[k].t = "num"}}

Greatest(nums) == CHOOSE x \in nums : \A z \in nums : ~NumLess(x, z)
Least(nums) == CHOOSE x \in nums : \A z \in nums : ~NumLess(z, x)

C6_MinMax ==
  \A a \in AggResults :
    \A j \in 1..Len(a.datasets) :
      LET nums == Numbers(Parsed(a.recs, a.datasets[j]))
          res == ResultOf(a.y, a.datasets, j)
      IN  /\ StartsWith(a.datasets[j].data, sMax) =>
               res = IF nums = {} THEN MIN_SAFE_INTEGER ELSE Greatest(nums)
          /\ StartsWith(a.datasets[j].data, sMin) =>
               res = IF nums = {} THEN MAX_SAFE_INTEGER ELSE Least(nums)
          /\ \A i \in 1..Len(a.datasets) :
               ( /\ StartsWith(a.datasets[j].data, sMin)
                 /\ StartsWith(a.datasets[i].data, sMax)
                 /\ a.datasets[i].aggField = a.datasets[j].aggField
                 /\ nums # {} ) =>
                 ~NumLess(ResultOf(a.y, a.datasets, i), res)

\* A node with a min and a max series whose bucket holds a record without a
\* numeric value and two records with different numeric values.
C6_Witness ==
  \E a \in AggResults :
    \E i, j \in 1..Len(a.datasets) :
      /\ a.node
      /\ StartsWith(a.datasets[j].data, sMin)
      /\ StartsWith(a.datasets[i].data, sMax)
      /\ \E k \in 1..Len(a.recs) : Parsed(a.recs, a.datasets[j])[k].t = "nan"
      /\ NumLess(ResultOf(a.y, a.datasets, j), ResultOf(a.y, a.datasets, i))
      /\ ResultOf(a.y, a.datasets, j).k = 0
      /\ ResultOf(a.y, a.datasets, i).k = 0

\* C6 as first stated: with at least one matching record the result is one of
\* the integer-parsed values of the matching records and none of them is
\* beyond it, and min <= max; with none it is the sentinel.
C6_MinMaxOfAllRecords ==
  \A a \in AggResults :
    \A j \in 1..Len(a.datasets) :
      LET vals == Parsed(a.recs, a.datasets[j])
          res == ResultOf(a.y, a.datasets, j)
      IN  /\ StartsWith(a.datasets[j].data, sMax) =>
               IF a.recs = <<>> THEN res = MIN_SAFE_INTEGER
               ELSE /\ \E k \in 1..Len(vals) : vals[k] = res
                    /\ \A k \in 1..Len(vals) : ~NumLess(res, vals[k])
          /\ StartsWith(a.datasets[j].data, sMin) =>
               IF a.recs = <<>> THEN res = MAX_SAFE_INTEGER
               ELSE /\ \E k \in 1..Len(vals) : vals[k] = res
                    /\ \A k \in 1..Len(vals) : ~NumLess(vals[k], res)
          /\ \A i \in 1..Len(a.datasets) :
               ( /\ StartsWith(a.datasets[j].data, sMin)
                 /\ StartsWith(a.datasets[i].data, sMax)
                 /\ a.datasets[i].aggField = a.datasets[j].aggField
                 /\ a.recs # <<>> ) =>
                 ~NumLess(ResultOf(a.y, a.datasets, i), res)

(***************************************************************************)
(* C7  Quantile correctness: for a non-empty list of numbers and q one of  *)
(* 0.25, 0.5, 0.75, Quartile is s[base] + rest * (s[base+1] - s[base])     *)
(* when base + 1 is an index of s and s[base] otherwise, s being the       *)
(* values in ascending numeric order, pos = (n-1)*q, base = floor(pos),    *)
(* rest = pos - base; so min <= q1 <= median <= q3 <= max; and the boxplot *)
(* of a node whose values are all numbers carries these q1, median and q3  *)
(* with the least and the greatest of the same values.                     *)
(***************************************************************************)
\* The i-th value in ascending order, by rank.
NthSmallest(vals, i) ==
  CHOOSE v \in Numbers(vals) :
    /\ Cardinality({j \in 1..Len(vals) : NumLess(vals[j], v)}) < i
    /\ i <= Cardinality({j \in 1..Len(vals) : ~NumLess(v, vals[j])})

\* The quantile of the claim, in quarters.
Quantile(vals, q) ==
  LET pos == (Len(vals) - 1) * q
      base == pos \div 4
      rest == pos % 4
      lo == NthSmallest(vals, base + 1).n
  IN  IF base + 1 < Len(vals)
      THEN Quarter(4 * lo + rest * (NthSmallest(vals, base + 2).n - lo))
      ELSE Quarter(4 * lo)

AllNumbers(vals) == \A i \in 1..Len(vals) : vals[i].t = "num"

InOrder(min, q1, median, q3, max) ==
  /\ 4 * min.n <= q1.n
  /\ q1.n <= median.n
  /\ median.n <= q3.n
  /\ q3.n <= 4 * max.n

C7_Quantile ==
  /\ ret.op = "Quartile" => ret.val = Quantile(ret.before, ret.q)
  /\ arr # <<>> =>
       InOrder(Least(Numbers(arr)), Quartile_25(arr).val, Median(arr).val,
               Quartile_75(arr).val, Greatest(Numbers(arr)))
  /\ \A a \in AggResults :
       \A j \in 1..Len(a.datasets) :
         LET vals == Parsed(a.recs, a.datasets[j])
             box == ResultOf(a.y, a.datasets, j)
         IN  ( /\ StartsWith(a.datasets[j].data, sBoxplot)
               /\ vals # <<>>
               /\ AllNumbers(vals) ) =>
               /\ box.q1 = Quantile(vals, 1)
               /\ box.median = Quantile(vals, 2)
               /\ box.q3 = Quantile(vals, 3)
               /\ box.min = Least(Numbers(vals))
               /\ box.max = Greatest(Numbers(vals))
               /\ InOrder(box.min, box.q1, box.median, box.q3, box.max)

\* Quartile(values, 0.25) called on 1, 2, 3, 4 in another order: 1.75.
C7_Witness ==
  /\ ret.op = "Quartile"
  /\ ret.q = 1
  /\ Len(ret.before) = 4
  /\ {ret.before[i] : i \in 1..4} = {Num(1), Num(2), Num(3), Num(4)}
  /\ ret.before # arr
  /\ ret.val = Quarter(7)

(***************************************************************************)
(* C8  Tree shape: a groupBy call with n specs that returns, returns a     *)
(* tree of depth n: the nodes of level k < n have the nodes of level k + 1 *)
(* as drilldown, and only the nodes of level n have the record payload.    *)
(***************************************************************************)
RECURSIVE Shape(_, _, _)
Shape(val, level, n) ==
  IF level > n THEN val.kind = "Object"
  ELSE /\ val.kind = "Array"
       /\ \A i \in 1..Len(val.elems) :
            /\ val.elems[i].group = level
            /\ Shape(val.elems[i].drilldown, level + 1, n)

C8_Depth == Returned => Shape(ret.val, 1, Len(groups))

\* A tree of three specs with a node at the third level.
C8_Witness ==
  /\ Len(groups) = 3
  /\ \E e \in TreeNodes : e.level = 3 /\ Len(e.anc) = 2

(***************************************************************************)
(* C9  Leaf payload: the drilldown of a node of the last level is the same *)
(* collection as the node's data: the same records in the same order, in   *)
(* the same kind of sequence.                                              *)
(***************************************************************************)
C9_LeafVerbatim ==
  \A e \in TreeNodes :
    e.level = Len(groups) => e.node.drilldown = ArrayOf(e.node.data)

(***************************************************************************)
(* C10  Path breadcrumb: with pairwise distinct fields in the spec list,   *)
(* the path of a node is the names of its ancestors from the first level   *)
(* down, each followed by " > ", then its own name.                        *)
(***************************************************************************)
RECURSIVE Join(_, _)
Join(strs, sep) ==
  IF strs = <<>> THEN <<>>
  ELSE IF Len(strs) = 1 THEN strs[1]
  ELSE strs[1] \o sep \o Join(Tail(strs), sep)

\* The field of a spec object as the caller wrote it.
RawField(group) ==
  IF group.modifier.t = "undef" THEN group.field
  ELSE Str(Call(ToStr(group.modifier), Join(group.modifierParams, <<",">>)))

\* Pairwise distinct fields, both as written and after parseGroupByField.
DistinctFields ==
  \A i, j \in 1..Len(groups) :
    i # j => /\ RawField(groups[i]) # RawField(groups[j])
             /\ groups[i].field # groups[j].field

Breadcrumb(names) == Str(Join([i \in 1..Len(names) |-> ToStr(names[i])], sSep))

C10_Breadcrumb ==
  DistinctFields =>
    \A e \in TreeNodes :
      e.node.path = Breadcrumb(Append(e.anc, e.node.name))
(***************************************************************************)
(* C11  Idempotence: a groupBy call that follows another groupBy call on   *)
(* the same records, with the spec objects as the first call left them,    *)
(* has the same outcome: the same tree (names, order, aggregates, paths,   *)
(* buckets, children), or the same failure.                                *)
(***************************************************************************)
C11_Idempotent ==
  [][(ret.op = "groupBy" /\ ret'.op = "groupBy")
       => (ret'.threw = ret.threw /\ ret'.val = ret.val)]_vars

\* A second call has returned a tree with nodes, built from spec objects
\* whose date_trunc field the first call had rewritten.
C11_Witness ==
  /\ Returned
  /\ ret.again
  /\ ret.val.elems # <<>>
  /\ \E i \in 1..Len(groups) : groups[i].modifier = Str(sDateTrunc)
(***************************************************************************)
(* C12  Malformed descriptor is fatal and fails fast: when a series string *)
(* of a spec at any level has no parenthesised group, the groupBy call     *)
(* throws, whatever the records, and no bucket has been aggregated before  *)
(* it throws.                                                              *)
(***************************************************************************)
\* Some series string of some spec object has no "(...)".
Malformed ==
  \E i \in 1..Len(groups) :
    \E j \in 1..Len(groups[i].datasets) :
      MatchParens(groups[i].datasets[j].data).null

C12_FailFast ==
  (ret.op = "groupBy" /\ Malformed) => (ret.threw /\ ret.aggCalls = 0)
(***************************************************************************)
(* C13  One result per series: the y of every node has one entry per       *)
(* series of the node's spec and the result of series j is entry j; a      *)
(* series of an unknown kind takes up its own entry only and moves no      *)
(* other result.                                                           *)
(***************************************************************************)
C13_OnePerSeries ==
  \A a \in AggResults :
    /\ Len(a.y) = Len(a.datasets)
    /\ \A j \in 1..Len(a.datasets) :
         Known(a.datasets[j].data)
           => a.y[j] = AggOne(a.recs, a.datasets[j])[1]
(***************************************************************************)
(* C14  applyModifier degrades to the raw value: it returns the value      *)
(* unchanged when the spec has no modifier, when the unit is none of day,  *)
(* month and year, and when the value is no date; for a date and a unit    *)
(* day, month or year it returns the first 10, 7 or 4 characters of the    *)
(* ISO form.  So in a tree every record whose value under a date_trunc     *)
(* spec is no date lies in a bucket named by its raw value.                *)
(***************************************************************************)
\* The length the unit of a spec object cuts the ISO form to, 0 for none.
UnitLength(group) ==
  IF group.modifier.t = "undef" THEN 0
  ELSE CASE group.modifierParams[1] = sDay -> 10
         [] group.modifierParams[1] = sMonth -> 7
         [] group.modifierParams[1] = sYear -> 4
         [] OTHER -> 0

Truncated(val, group) ==
  IF UnitLength(group) = 0 \/ ~NewDate(val).ok THEN val
  ELSE Str(SubSeq(toISOString(NewDate(val)), 1, UnitLength(group)))

C15_RecordsUnchanged ==
  [][/\ data' = data
     /\ \A e \in TreeNodes' :
          \A i \in 1..Len(e.node.data) :
            \E k \in 1..Len(data) : e.node.data[i] = data[k]]_vars

\* A tree has a node named by a truncated date, which differs from the
\* value its record still holds.
C15_Witness ==
  \E e \in TreeNodes :
    /\ groups[e.level].modifier = Str(sDateTrunc)
    /\ e.node.data # <<>>
    /\ e.node.name # Get(e.node.data[1], ToStr(groups[e.level].field))
    /\ \E k \in 1..Len(data) : e.node.data[1] = data[k]
(***************************************************************************)
(* C16  Stable buckets: the records of the bucket of every node are in the *)
(* relative order they have in the parent's record list, and so in the     *)
(* order they have in the list passed to groupBy, at every depth.          *)
(***************************************************************************)
\* sub can be had from seq by dropping elements.
RECURSIVE IsSubSeq(_, _)
IsSubSeq(sub, seq) ==
  IF sub = <<>> THEN TRUE
  ELSE IF seq = <<>> THEN FALSE
  ELSE IF Head(sub) = Head(seq) THEN IsSubSeq(Tail(sub), Tail(seq))
  ELSE IsSubSeq(sub, Tail(seq))

C16_Stable ==
  \A e \in TreeNodes :
    IsSubSeq(e.node.data, e.parent) /\ IsSubSeq(e.node.data, data)

\* A second-level bucket holds two different records, picked out of a list
\* that holds a third one between or around them.
C16_Witness ==
  \E e \in TreeNodes :
    /\ e.level = 2
    /\ Len(e.node.data) = 2
    /\ e.node.data[1] # e.node.data[2]
    /\ Len(data) = 3
(***************************************************************************)
(* C17  Ancestor consistency: every record of the bucket of a node has,    *)
(* for the node's own spec and for the spec of each ancestor, a modified   *)
(* field value that is the name of the node at that level; so the first    *)
(* record of a bucket stands for all of them when the path is built.       *)
(***************************************************************************)
\* The names from the first level down to the node itself.
NamesTo(e) == Append(e.anc, e.node.name)

C17_AncestorConsistent ==
  \A e \in TreeNodes :
    \A i \in 1..Len(e.node.data) :
      \A k \in 1..e.level :
        GroupValue(e.node.data[i], groups[k]) = NamesTo(e)[k]

(***************************************************************************)
(* C18  Quartile leaves its input unchanged: after the call the caller's   *)
(* list has the elements it had before, in the same order.                 *)
(***************************************************************************)
C18_InputUnchanged == ret.op = "Quartile" => arr = ret.before
====
